---- MODULE Spec2Model ----
(***************************************************************************)
(* Loop Runner (src/src/server.ts): the loop controller runLoop, the       *)
(* broadcast hub, the prompt builder and the request handlers of the Bun   *)
(* server, as one state machine.  Every action is one run-to-completion    *)
(* step of the JavaScript event loop: a request handler, or the part of an *)
(* async function between two awaits that really suspend (gateway setup,   *)
(* monitor read, session.create, session.prompt, setTimeout).              *)
(*                                                                         *)
(* Texts are sequences of tokens (a token is a TLA+ string), the empty     *)
(* text is << >>, and concatenation is \o.  The token [fence] stands for   *)
(* the three backquotes of a Markdown code fence.                          *)
(***************************************************************************)
EXTENDS Integers, Sequences, FiniteSets, TLC

\* ------------------------------------------------------------------ bounds
MaxIter == 3         \* iterations a behaviour may begin, all runs together
MaxSinks == 2        \* event streams a behaviour may open
MaxObservers == 1    \* the same, where the observers watch a run
MaxPublish == 2      \* memory writes published to several streams
MaxStart == 2        \* /api/start requests (so at most as many runLoop activations)
MaxStop == 1         \* /api/stop requests
MaxWrites == 1       \* /api/working, /api/persistent and /api/config requests
MaxModels == 1       \* /api/models requests
MaxHistIter == 102   \* the same, for the run that fills the history (above HistoryCap)
MaxFailIter == 2     \* that run's prompts can fail up to this iteration
MaxRuns == 1         \* POST /api/start requests where one run is observed
MaxMemIter == 2      \* iterations of the run that builds prompts from memory

\* ------------------------------------------------------- program constants
HistoryCap == 100    \* if (state.history.length > 100) state.history.shift()

Null == "null"       \* opencodeServer, opencodeClient: not set
NoMonitor == << >>   \* config.monitor: null
NoController == 0    \* loopAbort: null (a run's controller is named by its task)
NoSession == 0       \* state.sessionID: null (sessions are numbered from 1)

VARIABLES
  running,         \* state.running
  iteration,       \* state.iteration
  sessionID,       \* state.sessionID
  lastOutput,      \* state.lastOutput
  monitorOutput,   \* state.monitorOutput
  history,         \* state.history
  config,          \* config (the fields the loop reads)
  opencodeServer,  \* opencodeServer: Null or "server"
  opencodeClient,  \* opencodeClient: Null or "client"
  loopAbort,       \* loopAbort: Null or the AbortController of the latest run
  aborted,         \* the AbortControllers whose signal is aborted
  clients,         \* the Set of stream controllers
  streams,         \* per stream controller: what was enqueued, and whether it is open
  tasks,           \* the runLoop activations: position and locals
  models,          \* the fetchModels activations: position and result
  published,       \* the arguments of the step's broadcast() calls, in call order
  created,         \* number of sessions the agent runtime has created
  rounds,          \* number of iterations begun so far, all runs together
  calls,           \* requests handled so far, per endpoint; startsAtStop: the
                   \* start requests handled before the latest stop request
  env              \* what the environment may do (fixed by Init)

vars == <<running, iteration, sessionID, lastOutput, monitorOutput, history,
          config, opencodeServer, opencodeClient, loopAbort, aborted, clients,
          streams, tasks, models, published, created, rounds, calls, env>>

stateVars == <<running, iteration, sessionID, lastOutput, monitorOutput, history>>
gatewayVars == <<opencodeServer, opencodeClient>>
hubVars == <<clients, streams, published>>

TaskIds == 1..MaxStart
SinkIds == 1..MaxSinks
ModelIds == 1..MaxModels

\* ------------------------------------------------------------------- texts
RECURSIVE join(_, _)
\* Array.prototype.join: the elements separated by sep.
join(sections, sep) ==
  IF Len(sections) = 0 THEN << >>
  ELSE IF Len(sections) = 1 THEN sections[1]
  ELSE sections[1] \o sep \o join(Tail(sections), sep)

RECURSIVE filterText(_)
\* parts.filter(p => p.type === "text").map(p => p.text)
filterText(parts) ==
  IF Len(parts) = 0 THEN << >>
  ELSE IF parts[1].type = "text"
       THEN <<parts[1].text>> \o filterText(Tail(parts))
       ELSE filterText(Tail(parts))

extractResponse(parts) == join(filterText(parts), <<"\n">>)

\* A section whatever its source text.
sectionAlways(text, section) == <<section>>

\* One section when the source text is truthy (non-empty), none otherwise.
sectionIf(text, section) == IF text # << >> THEN <<section>> ELSE << >>

buildSections ==
  sectionIf(config.persistent, <<"## Persistent Memory\n">> \o config.persistent)
  \o sectionIf(config.working,
               <<"## Working Memory (this iteration only)\n">> \o config.working)
  \o sectionIf(monitorOutput,
               <<"## Monitor Output\n[fence]\n">> \o monitorOutput \o <<"\n[fence]">>)
  \o sectionIf(lastOutput, <<"## Previous Response\n">> \o lastOutput)
  \o << <<"## Current Task\n">> \o config.user >>
  \o << <<"\n---\nIteration: ", ToString(iteration)>> >>

buildPrompt == join(buildSections, <<"\n\n">>)

\* ------------------------------------------------------------------ events
\* JSON.stringify(state) at the moment of the call.  The history array is
\* abstracted to its length: no claim reads a snapshot's records.
StateSnap(r, i, sid, lo, mo, h) ==
  [running |-> r, iteration |-> i, sessionID |-> sid, lastOutput |-> lo,
   monitorOutput |-> mo, history |-> Len(h)]

StateEvent(snap) == [type |-> "state", state |-> snap]
IterationEvent(i) == [type |-> "iteration", iteration |-> i]
MonitorEvent(out) == [type |-> "monitor", output |-> out]
SessionErrorEvent == [type |-> "error", message |-> "Failed to create session"]
PromptErrorEvent(i) == [type |-> "error", message |-> "String(err)", iteration |-> i]
PromptEvent(p, i) == [type |-> "prompt", prompt |-> p, iteration |-> i]
ResponseEvent(r, i) == [type |-> "response", response |-> r, iteration |-> i]
StoppedEvent == [type |-> "stopped"]
ConfigEvent(c) == [type |-> "config", config |-> c]
ConnectedEvent(snap, c) == [type |-> "connected", state |-> snap, config |-> c]

\* --------------------------------------------------------------------- hub
\* controller.enqueue(encoded) throws on a stream that is no longer open.
enqueueThrows(c) == streams[c].state # "open"

\* broadcast with a catch that leaves the failed controller in the set.
broadcastKeep(events) ==
  /\ published' = events
  /\ streams' = [c \in SinkIds |->
                   IF c \in clients /\ ~enqueueThrows(c)
                   THEN [streams[c] EXCEPT !.queue = @ \o events]
                   ELSE streams[c]]
  /\ clients' = clients

\* broadcast(data), called for each element of events in turn within one step:
\* every controller of the set gets the event enqueued; one whose enqueue
\* throws is deleted from the set.
broadcast(events) ==
  /\ published' = events
  /\ streams' = [c \in SinkIds |->
                   IF c \in clients /\ ~enqueueThrows(c)
                   THEN [streams[c] EXCEPT !.queue = @ \o events]
                   ELSE streams[c]]
  /\ clients' = IF events = << >> THEN clients
                ELSE {c \in clients : ~enqueueThrows(c)}

\* A step that calls broadcast() not at all.
silent == broadcast(<< >>)

\* ------------------------------------------------------------------- tasks
\* pc: the await the activation is suspended at ("idle": not started, "done":
\* returned, "failed": rejected before the loop, "crashed": rejected inside
\* it); from: the pc it resumed from last; prompt, session: its locals; proc:
\* the monitor process Bun.spawn returned, with what reading its pipes gives.
NoProc == << >>
NoTask ==
  [pc |-> "idle", from |-> "idle", prompt |-> << >>, session |-> NoSession,
   proc |-> NoProc]
At(t, pc) == [NoTask EXCEPT !.pc = pc, !.from = tasks[t].pc]

\* The activation a start request spawns: the first unused one.
NextTask == CHOOSE t \in TaskIds : tasks[t].pc = "idle" /\ \A u \in 1..(t-1) : tasks[u].pc # "idle"
NextModel == CHOOSE m \in ModelIds : models[m].pc = "idle" /\ \A u \in 1..(m-1) : models[u].pc # "idle"
NextSink == CHOOSE c \in SinkIds : streams[c].state = "none" /\ \A u \in 1..(c-1) : streams[u].state # "none"

\* loopAbort.signal.aborted, for the controller the global names now.
signalAborted(ab) == ab # NoController /\ ab \in aborted

\* state.monitorOutput after a monitor run.
monitorText(out, err) == out \o (IF err # << >> THEN <<"\n[stderr]\n">> \o err ELSE << >>)
\* The text of a failed monitor run without the mark of the failure.
monitorErrorBare == <<"err">>

\* state.monitorOutput after a failed monitor run (line 108).
monitorError == <<"Error running monitor: ", "err">>

\* loopHead with the while test left out: a sleeping loop that does not look
\* at state.running again.
loopHeadUnchecked(r, i, ab, mo, spawnThrows) ==
  IF config.maxIterations > 0 /\ i >= config.maxIterations
  THEN [running |-> FALSE, iteration |-> i, monitorOutput |-> mo,
        events |-> <<StoppedEvent>>, pc |-> "done"]
  ELSE [running |-> r, iteration |-> i + 1, monitorOutput |-> mo,
        events |-> <<IterationEvent(i + 1)>>,
        pc |-> IF config.monitor = NoMonitor THEN "create" ELSE "monitor"]

\* loopHead with a ceiling test that does not ask whether a ceiling is set.
loopHeadCeilingZero(r, i, ab, mo, spawnThrows) ==
  IF ~(r /\ ~signalAborted(ab)) \/ i >= config.maxIterations
  THEN [running |-> FALSE, iteration |-> i, monitorOutput |-> mo,
        events |-> <<StoppedEvent>>, pc |-> "done"]
  ELSE [running |-> r, iteration |-> i + 1, monitorOutput |-> mo,
        events |-> <<IterationEvent(i + 1)>>,
        pc |-> IF config.monitor = NoMonitor THEN "create" ELSE "monitor"]

\* runLoop from the while test to the next await that suspends, given the
\* values the step has already given to state.running (r), state.iteration
\* (i), loopAbort (ab) and state.monitorOutput (mo).  spawnThrows: Bun.spawn
\* throws synchronously.
loopHead(r, i, ab, mo, spawnThrows) ==
  IF ~(r /\ ~signalAborted(ab))
  THEN [running |-> FALSE, iteration |-> i, monitorOutput |-> mo,
        events |-> <<StoppedEvent>>, pc |-> "done"]
  ELSE IF config.maxIterations > 0 /\ i >= config.maxIterations
  THEN [running |-> FALSE, iteration |-> i, monitorOutput |-> mo,
        events |-> <<StoppedEvent>>, pc |-> "done"]
  ELSE IF config.monitor = NoMonitor
  THEN [running |-> r, iteration |-> i + 1, monitorOutput |-> mo,
        events |-> <<IterationEvent(i + 1)>>, pc |-> "create"]
  ELSE IF spawnThrows
  THEN [running |-> r, iteration |-> i + 1, monitorOutput |-> monitorError,
        events |-> <<IterationEvent(i + 1), MonitorEvent(monitorError)>>,
        pc |-> "create"]
  ELSE [running |-> r, iteration |-> i + 1, monitorOutput |-> mo,
        events |-> <<IterationEvent(i + 1)>>, pc |-> "monitor"]

\* The rest of a step of task t that reaches the while test, after the step
\* has published the events pre.  Sets running, iteration, rounds,
\* monitorOutput, tasks and the hub.
Continue(t, r, i, ab, mo, pre) ==
  \E spawnThrows \in (IF config.monitor = NoMonitor THEN {FALSE} ELSE env.spawnThrows) :
    LET h == loopHead(r, i, ab, mo, spawnThrows) IN
    /\ rounds' = IF h.iteration = i THEN rounds ELSE rounds + 1
    /\ rounds' <= env.rounds
    /\ running' = h.running
    /\ iteration' = h.iteration
    /\ monitorOutput' = h.monitorOutput
    /\ \E proc \in (IF h.pc = "monitor" THEN env.monitor ELSE {NoProc}) :
         tasks' = [tasks EXCEPT ![t] = [At(t, h.pc) EXCEPT !.proc = proc]]
    /\ broadcast(pre \o h.events)

\* runLoop lines 119-122, then the loop.
Enter(t) ==
  /\ loopAbort' = t
  /\ Continue(t, TRUE, 0, t, monitorOutput,
              <<StateEvent(StateSnap(TRUE, 0, sessionID, lastOutput, monitorOutput, history))>>)

\* -------------------------------------------------------- the loop's steps
\* runLoop() called by the start handler.  With the gateway client at hand it
\* runs without suspending up to its first await inside the loop; otherwise it
\* suspends in startOpenCode (createOpencodeServer pending), or, should the
\* server exist without a client, throws.
callRunLoop ==
  LET t == NextTask IN
  IF opencodeClient # Null
  THEN Enter(t)
  ELSE /\ tasks' = [tasks EXCEPT ![t] =
                      At(t, IF opencodeServer = Null THEN "setup" ELSE "failed")]
       /\ silent
       /\ UNCHANGED <<running, iteration, rounds, monitorOutput, loopAbort>>

\* The start handler without its test of state.running.
ReqStartUnguarded ==
  /\ calls.start < env.start
  /\ calls' = [calls EXCEPT !.start = @ + 1]
  /\ UNCHANGED <<sessionID, lastOutput, history, config, gatewayVars, aborted,
                 models, created, env>>
  /\ callRunLoop

\* A start handler that begins every run with an empty history and no last
\* output.
ReqStartReset ==
  /\ calls.start < env.start
  /\ calls' = [calls EXCEPT !.start = @ + 1]
  /\ UNCHANGED <<sessionID, config, gatewayVars, aborted, models, created, env>>
  /\ IF running
     THEN /\ silent
          /\ UNCHANGED <<running, iteration, rounds, monitorOutput, loopAbort, tasks,
                         lastOutput, history>>
     ELSE /\ lastOutput' = << >>
          /\ history' = << >>
          /\ callRunLoop

\* POST /api/start.
ReqStart ==
  /\ calls.start < env.start
  /\ calls' = [calls EXCEPT !.start = @ + 1]
  /\ UNCHANGED <<sessionID, lastOutput, history, config, gatewayVars, aborted,
                 models, created, env>>
  /\ IF running
     THEN silent /\ UNCHANGED <<running, iteration, rounds, monitorOutput, loopAbort, tasks>>
     ELSE callRunLoop

\* createOpencodeServer of task t settles.  The server listens on one fixed
\* port (line 83), so it can come up only while no earlier one holds the port.
\* When it throws, runLoop rejects and console.error is all that happens.
SetupDone(t) ==
  /\ tasks[t].pc = "setup"
  /\ UNCHANGED <<sessionID, lastOutput, history, config, aborted, models,
                 created, calls, env>>
  /\ \E ok \in env.setup :
       IF ok /\ opencodeServer = Null
       THEN /\ opencodeServer' = "server"
            /\ opencodeClient' = "client"
            /\ Enter(t)
       ELSE /\ tasks' = [tasks EXCEPT ![t] = At(t, "failed")]
            /\ silent
            /\ UNCHANGED <<running, iteration, rounds, monitorOutput, loopAbort, gatewayVars>>

\* The monitor process's output has been read (or reading it threw).
MonitorDone(t) ==
  /\ tasks[t].pc = "monitor"
  /\ UNCHANGED <<running, iteration, rounds, sessionID, lastOutput, history, config,
                 gatewayVars, loopAbort, aborted, models, created, calls, env>>
  /\ LET o == tasks[t].proc
         text == IF o.throws THEN monitorError ELSE monitorText(o.out, o.err) IN
       /\ monitorOutput' = text
       /\ broadcast(<<MonitorEvent(text)>>)
       /\ tasks' = [tasks EXCEPT ![t] = At(t, "create")]

\* CreateDone with a dispatch into the session state.sessionID names, when
\* it names one.
CreateDoneReuse(t) ==
  /\ tasks[t].pc = "create"
  /\ UNCHANGED <<running, iteration, rounds, lastOutput, monitorOutput, history, config,
                 gatewayVars, loopAbort, aborted, models, calls, env>>
  /\ \E o \in env.create :
       CASE o = "data" ->
              LET id == IF sessionID # NoSession THEN sessionID ELSE created + 1
                  prompt == buildPrompt IN
              /\ created' = id
              /\ sessionID' = id
              /\ tasks' = [tasks EXCEPT ![t] =
                             [At(t, "prompt") EXCEPT !.prompt = prompt, !.session = id]]
              /\ broadcast(<<PromptEvent(prompt, iteration)>>)
         [] o = "nodata" ->
              /\ tasks' = [tasks EXCEPT ![t] = At(t, "sleepFail")]
              /\ broadcast(<<SessionErrorEvent>>)
              /\ UNCHANGED <<created, sessionID>>
         [] OTHER ->
              /\ tasks' = [tasks EXCEPT ![t] = At(t, "crashed")]
              /\ silent
              /\ UNCHANGED <<created, sessionID>>

\* opencodeClient.session.create() settles: with data, without data, or by
\* rejecting (no handler: runLoop rejects).
CreateDone(t) ==
  /\ tasks[t].pc = "create"
  /\ UNCHANGED <<running, iteration, rounds, lastOutput, monitorOutput, history, config,
                 gatewayVars, loopAbort, aborted, models, calls, env>>
  /\ \E o \in env.create :
       CASE o = "data" ->
              LET id == created + 1
                  prompt == buildPrompt IN
              /\ created' = id
              /\ sessionID' = id
              /\ tasks' = [tasks EXCEPT ![t] =
                             [At(t, "prompt") EXCEPT !.prompt = prompt, !.session = id]]
              /\ broadcast(<<PromptEvent(prompt, iteration)>>)
         [] o = "nodata" ->
              /\ tasks' = [tasks EXCEPT ![t] = At(t, "sleepFail")]
              /\ broadcast(<<SessionErrorEvent>>)
              /\ UNCHANGED <<created, sessionID>>
         [] OTHER ->
              /\ tasks' = [tasks EXCEPT ![t] = At(t, "crashed")]
              /\ silent
              /\ UNCHANGED <<created, sessionID>>

\* The push without the shift.
pushHistoryUncapped(h, rec) == Append(h, rec)

\* state.history after push and the shift that caps it.
pushHistory(h, rec) ==
  LET pushed == Append(h, rec) IN
  IF Len(pushed) > HistoryCap THEN Tail(pushed) ELSE pushed

\* The iteration's end clearing both memories.
clearMemory(c) == [c EXCEPT !.working = << >>, !.persistent = << >>]

\* The iteration's end without line 177.
keepWorking(c) == c

\* config.working = "" (line 177).
clearWorking(c) == [c EXCEPT !.working = << >>]

\* opencodeClient.session.prompt() settles: lines 157-182, and the loop's
\* next round when state.running is false.
PromptDone(t) ==
  /\ tasks[t].pc = "prompt"
  /\ UNCHANGED <<sessionID, gatewayVars, loopAbort, aborted, models, created,
                 calls, env>>
  /\ \E o \in {x \in env.prompt : x.kind = "data" \/ iteration <= env.failUntil} :
       LET response == extractResponse(o.parts)
           ok == o.kind = "data"
           lo == IF ok THEN response ELSE lastOutput
           h == IF ok
                THEN pushHistory(history, [iteration |-> iteration,
                                           prompt |-> tasks[t].prompt,
                                           response |-> response])
                ELSE history
           pre == (IF ok THEN <<ResponseEvent(response, iteration)>>
                   ELSE IF o.kind = "throw" THEN <<PromptErrorEvent(iteration)>>
                   ELSE << >>)
                  \o <<StateEvent(StateSnap(running, iteration, sessionID, lo,
                                            monitorOutput, h))>>
       IN
       /\ lastOutput' = lo
       /\ history' = h
       /\ config' = clearWorking(config)
       /\ IF running
          THEN /\ tasks' = [tasks EXCEPT ![t] = At(t, "sleep")]
               /\ broadcast(pre)
               /\ UNCHANGED <<running, iteration, rounds, monitorOutput>>
          ELSE Continue(t, running, iteration, loopAbort, monitorOutput, pre)

\* The timer of sleep(config.interval) fires: after the iteration (line 181)
\* or after a failed session creation (line 139, then continue).
SleepDone(t) ==
  /\ tasks[t].pc \in {"sleep", "sleepFail"}
  /\ UNCHANGED <<sessionID, lastOutput, history, config, gatewayVars, loopAbort,
                 aborted, models, created, calls, env>>
  /\ Continue(t, running, iteration, loopAbort, monitorOutput, << >>)

\* ------------------------------------------------------ the other requests
\* POST /api/stop.
ReqStop ==
  /\ calls.stop < env.stop
  /\ calls' = [calls EXCEPT !.stop = @ + 1, !.startsAtStop = calls.start]
  /\ running' = FALSE
  /\ aborted' = IF loopAbort # NoController THEN aborted \cup {loopAbort} ELSE aborted
  /\ silent
  /\ UNCHANGED <<iteration, rounds, sessionID, lastOutput, monitorOutput, history, config,
                 gatewayVars, loopAbort, tasks, models, created, env>>

\* { ...config, ...body }
merge(c, body) == [k \in DOMAIN c |-> IF k \in DOMAIN body THEN body[k] ELSE c[k]]

\* A request that replaces config and broadcasts it.
writeConfig(c) ==
  /\ calls.writes < env.writes
  /\ calls' = [calls EXCEPT !.writes = @ + 1]
  /\ config' = c
  /\ broadcast(<<ConfigEvent(c)>>)
  /\ UNCHANGED <<stateVars, rounds, gatewayVars, loopAbort, aborted, tasks, models,
                 created, env>>

\* POST /api/config.
ReqConfig == \E body \in env.bodies : writeConfig(merge(config, body))

\* POST /api/working.
ReqWorking == \E w \in env.working : writeConfig([config EXCEPT !.working = w])

\* POST /api/persistent.
ReqPersistent == \E p \in env.persistent : writeConfig([config EXCEPT !.persistent = p])

\* The subscription without its `connected` event.
ReqEventsSilent ==
  /\ calls.events < env.events
  /\ calls' = [calls EXCEPT !.events = @ + 1]
  /\ LET c == NextSink IN
     /\ clients' = clients \cup {c}
     /\ streams' = [streams EXCEPT ![c] =
          [queue |-> << >>, state |-> "open"]]
  /\ published' = << >>
  /\ UNCHANGED <<stateVars, rounds, config, gatewayVars, loopAbort, aborted, tasks,
                 models, created, env>>

\* GET /api/events: the stream's start(controller).
ReqEvents ==
  /\ calls.events < env.events
  /\ calls' = [calls EXCEPT !.events = @ + 1]
  /\ LET c == NextSink IN
     /\ clients' = clients \cup {c}
     /\ streams' = [streams EXCEPT ![c] =
          [queue |-> <<ConnectedEvent(StateSnap(running, iteration, sessionID,
                                                lastOutput, monitorOutput, history),
                                      config)>>,
           state |-> "open"]]
  /\ published' = << >>
  /\ UNCHANGED <<stateVars, rounds, config, gatewayVars, loopAbort, aborted, tasks,
                 models, created, env>>

\* The observer of stream c goes away: enqueue throws from now on.  The
\* stream's cancel callback deletes its argument from clients; deleted says
\* whether the runtime hands it the controller (it hands it the reason).
Disconnect(c) ==
  /\ streams[c].state = "open"
  /\ streams' = [streams EXCEPT ![c].state = "closed"]
  /\ \E deleted \in env.cancelDeletes :
       clients' = IF deleted THEN clients \ {c} ELSE clients
  /\ published' = << >>
  /\ UNCHANGED <<stateVars, rounds, config, gatewayVars, loopAbort, aborted, tasks,
                 models, created, calls, env>>

\* GET /api/models: fetchModels up to its first await that suspends.
ReqModels ==
  /\ calls.models < env.models
  /\ calls' = [calls EXCEPT !.models = @ + 1]
  /\ LET m == NextModel IN
     models' = [models EXCEPT ![m] =
       IF opencodeClient # Null THEN [pc |-> "list", result |-> "pending"]
       ELSE IF opencodeServer = Null THEN [pc |-> "setup", result |-> "pending"]
       ELSE [pc |-> "done", result |-> "[]"]]
  /\ silent
  /\ UNCHANGED <<stateVars, rounds, config, gatewayVars, loopAbort, aborted, tasks,
                 created, env>>

\* createOpencodeServer of fetchModels activation m settles; a throw is
\* outside fetchModels' try block, so the request fails.
ModelsSetupDone(m) ==
  /\ models[m].pc = "setup"
  /\ \E ok \in env.setup :
       IF ok /\ opencodeServer = Null
       THEN /\ opencodeServer' = "server"
            /\ opencodeClient' = "client"
            /\ models' = [models EXCEPT ![m] = [pc |-> "list", result |-> "pending"]]
       ELSE /\ models' = [models EXCEPT ![m] = [pc |-> "done", result |-> "error"]]
            /\ UNCHANGED gatewayVars
  /\ silent
  /\ UNCHANGED <<stateVars, rounds, config, loopAbort, aborted, tasks, created, calls, env>>

\* opencodeClient.provider.list() settles.
ModelsListDone(m) ==
  /\ models[m].pc = "list"
  /\ \E o \in env.list :
       models' = [models EXCEPT ![m] =
         [pc |-> "done", result |-> IF o = "data" THEN "models" ELSE "[]"]]
  /\ silent
  /\ UNCHANGED <<stateVars, rounds, config, gatewayVars, loopAbort, aborted, tasks,
                 created, calls, env>>

\* ------------------------------------------------------------ construction
\* const state (lines 39-46), let config (48-59; model, system and autoApprove
\* are passed through and not modelled), the gateway handles and the set of
\* clients, with the environment e.
defaultConfig ==
  [user |-> <<"T">>, working |-> << >>, persistent |-> << >>, monitor |-> NoMonitor,
   interval |-> 5000, maxIterations |-> 0]

InitWith(e, c) ==
  /\ running = FALSE
  /\ iteration = 0
  /\ sessionID = NoSession
  /\ lastOutput = << >>
  /\ monitorOutput = << >>
  /\ history = << >>
  /\ config = c
  /\ opencodeServer = Null
  /\ opencodeClient = Null
  /\ loopAbort = NoController
  /\ aborted = {}
  /\ clients = {}
  /\ streams = [s \in SinkIds |-> [queue |-> << >>, state |-> "none"]]
  /\ tasks = [t \in TaskIds |-> NoTask]
  /\ models = [m \in ModelIds |-> [pc |-> "idle", result |-> "pending"]]
  /\ published = << >>
  /\ created = 0
  /\ rounds = 0
  /\ calls = [start |-> 0, stop |-> 0, writes |-> 0, events |-> 0, models |-> 0,
              startsAtStop |-> 0]
  /\ env = e

\* ---------------------------------------------------- environment outcomes
TextPart(x) == [type |-> "text", text |-> x]
ToolPart == [type |-> "tool"]

PromptData(parts) == [kind |-> "data", parts |-> parts]
PromptNoData == [kind |-> "nodata", parts |-> << >>]
PromptThrow == [kind |-> "throw", parts |-> << >>]

MonitorOut(out, err) == [throws |-> FALSE, out |-> out, err |-> err]
MonitorThrow == [throws |-> TRUE, out |-> << >>, err |-> << >>]

\* Nothing but start requests, and a gateway that never fails.
Quiet ==
  [start |-> 0, stop |-> 0, writes |-> 0, events |-> 0, models |-> 0,
   rounds |-> MaxIter, failUntil |-> MaxIter,
   bodies |-> {}, working |-> {}, persistent |-> {},
   setup |-> {TRUE}, spawnThrows |-> {FALSE},
   monitor |-> {MonitorOut(<<"M">>, << >>)},
   create |-> {"data"},
   prompt |-> {PromptData(<<TextPart(<<"R">>)>>)},
   list |-> {"data"},
   cancelDeletes |-> {FALSE}]

\* ----------------------------------------------------- start, stop, gateway
\* The control surface: start and stop requests against a gateway every call
\* of which can fail.  maxIterations has been configured (POST /api/config)
\* before the first start.
EnvControl ==
  [Quiet EXCEPT
     !.start = MaxStart, !.stop = MaxStop,
     !.setup = BOOLEAN,
     !.create = {"data", "nodata", "throw"},
     !.prompt = {PromptData(<<TextPart(<<"R">>)>>), PromptThrow}]

Init ==
  \E n \in 0..MaxIter : InitWith(EnvControl, [defaultConfig EXCEPT !.maxIterations = n])

Next ==
  \/ ReqStart
  \/ ReqStop
  \/ \E t \in TaskIds : SetupDone(t)
  \/ \E t \in TaskIds : CreateDone(t)
  \/ \E t \in TaskIds : PromptDone(t)
  \/ \E t \in TaskIds : SleepDone(t)

Spec == Init /\ [][Next]_vars

\* ------------------------------------------------- memory, monitor, prompt
\* One run whose prompts are built from every combination of sources:
\* persistent memory and the monitor command were configured before the
\* start, working memory is written while the run goes on, and the agent
\* answers with text, without text, without data or not at all.
EnvMemory ==
  [Quiet EXCEPT
     !.start = MaxRuns, !.writes = MaxWrites,
     !.working = {<<"W">>},
     !.rounds = MaxMemIter,
     !.spawnThrows = BOOLEAN,
     !.monitor = {MonitorOut(<<"M">>, << >>), MonitorOut(<< >>, << >>), MonitorThrow},
     !.create = {"data", "nodata"},
     !.prompt = {PromptData(<<TextPart(<<"R">>)>>), PromptData(<<ToolPart>>),
                 PromptNoData, PromptThrow}]

InitMemory ==
  \E p \in {<< >>, <<"P">>}, m \in {NoMonitor, [command |-> <<"cmd">>]} :
    InitWith(EnvMemory, [defaultConfig EXCEPT !.persistent = p, !.monitor = m])

NextMemory ==
  \/ ReqStart
  \/ ReqWorking
  \/ \E t \in TaskIds : SetupDone(t)
  \/ \E t \in TaskIds : MonitorDone(t)
  \/ \E t \in TaskIds : CreateDone(t)
  \/ \E t \in TaskIds : PromptDone(t)
  \/ \E t \in TaskIds : SleepDone(t)

SpecMemory == InitMemory /\ [][NextMemory]_vars

\* ------------------------------------------------------------------ history
\* One unbounded run long enough to overflow the history; its prompts can
\* fail during the first iterations.
EnvHistory ==
  [Quiet EXCEPT
     !.start = MaxRuns, !.rounds = MaxHistIter, !.failUntil = MaxFailIter,
     !.prompt = {PromptData(<<TextPart(<<"R">>)>>), PromptThrow}]

InitHistory == InitWith(EnvHistory, defaultConfig)

NextHistory ==
  \/ ReqStart
  \/ \E t \in TaskIds : SetupDone(t)
  \/ \E t \in TaskIds : CreateDone(t)
  \/ \E t \in TaskIds : PromptDone(t)
  \/ \E t \in TaskIds : SleepDone(t)

SpecHistory == InitHistory /\ [][NextHistory]_vars

\* ---------------------------------------------------------------------- hub
\* Observers that come and go while runs of one iteration and memory writes
\* publish events.
EnvHub ==
  [Quiet EXCEPT
     !.start = MaxRuns, !.writes = MaxWrites, !.events = MaxObservers,
     !.working = {<<"W">>},
     !.create = {"data", "nodata"},
     !.cancelDeletes = BOOLEAN]

InitHub == InitWith(EnvHub, [defaultConfig EXCEPT !.maxIterations = 1])

NextHub ==
  \/ ReqStart
  \/ ReqWorking
  \/ ReqEvents
  \/ \E c \in SinkIds : Disconnect(c)
  \/ \E t \in TaskIds : SetupDone(t)
  \/ \E t \in TaskIds : CreateDone(t)
  \/ \E t \in TaskIds : PromptDone(t)
  \/ \E t \in TaskIds : SleepDone(t)

SpecHub == InitHub /\ [][NextHub]_vars

\* ------------------------------------------------------------------- models
\* Model listings requested before and while a run uses the gateway; the
\* gateway's setup and its provider listing can fail.
EnvModels ==
  [Quiet EXCEPT
     !.start = MaxRuns, !.models = MaxModels,
     !.setup = BOOLEAN,
     !.list = {"data", "nodata", "throw"}]

InitModels == InitWith(EnvModels, defaultConfig)

NextModels ==
  \/ ReqStart
  \/ ReqModels
  \/ \E m \in ModelIds : ModelsSetupDone(m)
  \/ \E m \in ModelIds : ModelsListDone(m)
  \/ \E t \in TaskIds : SetupDone(t)
  \/ \E t \in TaskIds : CreateDone(t)
  \/ \E t \in TaskIds : PromptDone(t)
  \/ \E t \in TaskIds : SleepDone(t)

SpecModels == InitModels /\ [][NextModels]_vars

\* -------------------------------------------------------- persistent memory
\* A run that is started and stopped while all three memory requests come in.
EnvPersistent ==
  [Quiet EXCEPT
     !.start = MaxRuns, !.stop = MaxStop, !.writes = MaxWrites,
     !.rounds = MaxMemIter,
     !.bodies = {[persistent |-> <<"B">>], [maxIterations |-> 1]},
     !.working = {<<"W">>},
     !.persistent = {<<"Q">>, << >>},
     !.create = {"data", "nodata", "throw"},
     !.prompt = {PromptData(<<TextPart(<<"R">>)>>), PromptNoData, PromptThrow}]

InitPersistent == InitWith(EnvPersistent, [defaultConfig EXCEPT !.persistent = <<"P">>])

NextPersistent ==
  \/ ReqStart
  \/ ReqStop
  \/ ReqConfig
  \/ ReqWorking
  \/ ReqPersistent
  \/ \E t \in TaskIds : SetupDone(t)
  \/ \E t \in TaskIds : CreateDone(t)
  \/ \E t \in TaskIds : PromptDone(t)
  \/ \E t \in TaskIds : SleepDone(t)

SpecPersistent == InitPersistent /\ [][NextPersistent]_vars

\* -------------------------------------------------------------------- sinks
\* Several observers subscribe and go away while memory writes publish
\* `config` events.  The stream's cancel callback is handed the reason, not
\* the controller, so only a failed enqueue removes a sink.
EnvSinks ==
  [Quiet EXCEPT
     !.writes = MaxPublish, !.events = MaxSinks,
     !.working = {<<"W">>},
     !.persistent = {<<"Q">>}]

InitSinks == InitWith(EnvSinks, defaultConfig)

NextSinks ==
  \/ ReqWorking
  \/ ReqPersistent
  \/ ReqEvents
  \/ \E c \in SinkIds : Disconnect(c)

SpecSinks == InitSinks /\ [][NextSinks]_vars

\* ------------------------------------------------------------------ restart
\* Runs of one iteration each, one after the other, with a monitor command
\* and memories configured before the first start.
EnvRestart ==
  [Quiet EXCEPT
     !.start = MaxStart,
     !.spawnThrows = BOOLEAN,
     !.monitor = {MonitorOut(<<"M">>, << >>), MonitorThrow},
     !.create = {"data", "nodata"},
     !.prompt = {PromptData(<<TextPart(<<"R">>)>>), PromptThrow}]

InitRestart ==
  \E w \in {<< >>, <<"W">>} :
    InitWith(EnvRestart,
             [defaultConfig EXCEPT !.working = w, !.persistent = <<"P">>,
                                   !.monitor = [command |-> <<"cmd">>],
                                   !.maxIterations = 1])

NextRestart ==
  \/ ReqStart
  \/ \E t \in TaskIds : SetupDone(t)
  \/ \E t \in TaskIds : MonitorDone(t)
  \/ \E t \in TaskIds : CreateDone(t)
  \/ \E t \in TaskIds : PromptDone(t)
  \/ \E t \in TaskIds : SleepDone(t)

SpecRestart == InitRestart /\ [][NextRestart]_vars

\* ------------------------------------------------------------ observations
Range(q) == {q[k] : k \in DOMAIN q}
Types(q) == {q[k].type : k \in DOMAIN q}

\* Task t is inside the while loop of runLoop (suspended at one of its awaits).
InLoop(t) == tasks[t].pc \in {"monitor", "create", "prompt", "sleep", "sleepFail"}
\* Task t was inside the loop and its promise has settled.
Ended(t) == tasks[t].pc \in {"done", "crashed"}

\* The step handles a start request.
StartStep == calls'.start = calls.start + 1

\* C1: with maxIterations = N > 0 configured and unchanged, a run that is never
\* stopped from outside performs exactly N iterations: the counter never passes
\* N, and when the run's task ends the counter is N, the running flag is false
\* and the ending step is the one step of the run that publishes `stopped`.
C1_ExactlyNIterations ==
  (calls.start = 1 /\ calls.stop = 0 /\ config.maxIterations > 0) =>
    /\ iteration <= config.maxIterations
    /\ \A t \in TaskIds :
         /\ Ended(t) => /\ iteration = config.maxIterations
                        /\ ~running
                        /\ published = <<StoppedEvent>>
         /\ InLoop(t) => "stopped" \notin Types(published)

\* C2: at most one runLoop activation is inside the iteration loop.
C2_AtMostOneLoop == Cardinality({t \in TaskIds : InLoop(t)}) <= 1

\* C3: a start request handled while state.running is true changes nothing
\* (no counter reset, no new AbortController, no broadcast, no new task, and
\* nothing that would remember it); and a runLoop activation comes into being
\* only in the step of a start request that found state.running false.
C3_StartWhileRunningIsNoOp ==
  [][ /\ (StartStep /\ running) =>
           /\ UNCHANGED <<stateVars, rounds, config, gatewayVars, loopAbort, aborted,
                          clients, streams, tasks, models, created, env>>
           /\ published' = << >>
           /\ calls' = [calls EXCEPT !.start = @ + 1]
      /\ \A t \in TaskIds :
           (tasks[t].pc = "idle" /\ tasks'[t].pc # "idle") => (StartStep /\ ~running)
    ]_vars

\* A start request was handled while a run was active and did nothing: more
\* requests than activations, with the first run still in its loop.
C3_Witness ==
  /\ calls.start = 2
  /\ InLoop(1) /\ running /\ iteration = 1
  /\ tasks[2].pc = "idle"

\* C4: once state.running has been cleared while task t is in the pacing sleep
\* (by stop()), and as long as no start request follows, no step publishes an
\* `iteration` event or changes the counter, and t leaves the sleep only by
\* ending with state.running false and `stopped` published.
C4_StopDuringSleep ==
  [][ \A t \in TaskIds :
        (tasks[t].pc = "sleep" /\ ~running /\ ~StartStep) =>
          /\ iteration' = iteration
          /\ "iteration" \notin Types(published')
          /\ \/ tasks'[t] = tasks[t]
             \/ /\ tasks'[t].pc = "done"
                /\ ~running'
                /\ StoppedEvent \in Range(published')
    ]_vars

\* The only run of the behaviour, unbounded, has ended from its pacing sleep:
\* stop() arrived while it slept.
C4_Witness ==
  /\ calls.start = 1 /\ calls.stop >= 1 /\ config.maxIterations = 0
  /\ tasks[1].pc = "done" /\ tasks[1].from = "sleep"
  /\ ~running /\ iteration = 1
  /\ published = <<StoppedEvent>>

\* C5: whenever a task that was inside the loop ends, that step leaves
\* state.running false and publishes `stopped`.
C5_EveryEndStops ==
  [][ \A t \in TaskIds :
        (InLoop(t) /\ ~InLoop(t)') => (~running' /\ StoppedEvent \in Range(published'))
    ]_vars

\* C10: when session.create() of task t fails, the step publishes an `error`
\* event, appends nothing to history, dispatches no prompt and leaves t in the
\* sleep of the configured interval, from which it goes back to the loop test.
C10_SessionFailureContinues ==
  [][ \A t \in TaskIds :
        (tasks[t].pc = "create" /\ tasks'[t].pc \notin {"create", "prompt"}) =>
          /\ SessionErrorEvent \in Range(published')
          /\ "prompt" \notin Types(published')
          /\ history' = history
          /\ tasks'[t].pc = "sleepFail"
    ]_vars

\* ----------------------------------------------------- history (SpecHistory)
\* The last n elements of s.
LastN(s, n) == IF Len(s) <= n THEN s ELSE SubSeq(s, Len(s) - n + 1, Len(s))

\* C6: the history never holds more than 100 records, its records are in
\* insertion order (within one run: ascending iteration numbers), a step that
\* publishes a response leaves the last 100 of the old records followed by
\* the new one, and every other step leaves the history alone: the history is
\* exactly the last 100 successful records.
C6_HistoryIsLastHundred ==
  [][ /\ Len(history') <= HistoryCap
      /\ \A k \in 1..(Len(history') - 1) :
           history'[k].iteration < history'[k + 1].iteration
      /\ IF "response" \in Types(published')
         THEN \E t \in TaskIds :
                /\ tasks[t].pc = "prompt" /\ tasks'[t].pc # "prompt"
                /\ ResponseEvent(lastOutput', iteration) \in Range(published')
                /\ history' = LastN(Append(history,
                                           [iteration |-> iteration,
                                            prompt |-> tasks[t].prompt,
                                            response |-> lastOutput']),
                                    HistoryCap)
         ELSE history' = history
    ]_vars

\* 101 iterations in a row succeeded (the prompt of the second carries the
\* response of the first): the first one's record is gone, the 101st is last.
C6_Witness ==
  /\ Len(history) = HistoryCap
  /\ history[1].iteration = 2
  /\ "## Previous Response\n" \in Range(history[1].prompt)
  /\ history[HistoryCap].iteration = HistoryCap + 1
  /\ \A k \in 1..HistoryCap : history[k].iteration # 1

\* ------------------------------------------------------- memory (SpecMemory)
\* C7: the step that ends an iteration's prompt dispatch, with a response,
\* without data or with an exception, publishes the closing state snapshot
\* and leaves config.working empty.
C7_WorkingClearedAtIterationEnd ==
  [][ \A t \in TaskIds :
        (tasks[t].pc = "prompt" /\ tasks'[t].pc # "prompt") =>
          /\ "state" \in Types(published')
          /\ config'.working = << >>
    ]_vars

\* A failed dispatch of the first iteration has just published its error and
\* the closing snapshot, and working memory, written before or during that
\* iteration, is empty.
C7_Witness ==
  /\ rounds = 1
  /\ calls.writes >= 1
  /\ Types(published) = {"error", "state"}
  /\ PromptErrorEvent(iteration) \in Range(published)
  /\ config.working = << >>

\* The reference prompt: the optional sources in their order, the ones with a
\* non-empty text rendered between head and foot.
RefSources ==
  << [head |-> <<"## Persistent Memory\n">>, text |-> config.persistent,
      foot |-> << >>],
     [head |-> <<"## Working Memory (this iteration only)\n">>,
      text |-> config.working, foot |-> << >>],
     [head |-> <<"## Monitor Output\n[fence]\n">>, text |-> monitorOutput,
      foot |-> <<"\n[fence]">>],
     [head |-> <<"## Previous Response\n">>, text |-> lastOutput,
      foot |-> << >>] >>

RefPresent(src) == src.text # << >>

RefBlocks ==
  LET kept == SelectSeq(RefSources, RefPresent) IN
  [k \in 1..Len(kept) |-> kept[k].head \o kept[k].text \o kept[k].foot]
  \o << <<"## Current Task\n">> \o config.user,
        <<"\n---\nIteration: ", ToString(iteration)>> >>

RECURSIVE RefJoin(_)
RefJoin(blocks) ==
  IF Len(blocks) = 1 THEN blocks[1]
  ELSE RefJoin(SubSeq(blocks, 1, Len(blocks) - 1)) \o <<"\n\n">> \o blocks[Len(blocks)]

RefPrompt == RefJoin(RefBlocks)

\* The first position of token x in prompt p.
FirstPos(p, x) == CHOOSE k \in 1..Len(p) : p[k] = x /\ \A j \in 1..(k - 1) : p[j] # x

\* C9: the prompt a task builds (and publishes, and dispatches) is the
\* reference prompt of the store's texts at that moment; with all five sources
\* non-empty P comes before W before M before R before T; an empty source
\* leaves neither its heading nor, for the monitor, a fence in the prompt.
C9_PromptIsReference ==
  [][ \A t \in TaskIds :
        (tasks[t].pc # "prompt" /\ tasks'[t].pc = "prompt") =>
          LET p == tasks'[t].prompt IN
          /\ p = RefPrompt
          /\ PromptEvent(p, iteration) \in Range(published')
          /\ (\A k \in 1..4 : RefPresent(RefSources[k])) =>
               /\ FirstPos(p, config.persistent[1]) < FirstPos(p, config.working[1])
               /\ FirstPos(p, config.working[1]) < FirstPos(p, monitorOutput[1])
               /\ FirstPos(p, monitorOutput[1]) < FirstPos(p, lastOutput[1])
               /\ FirstPos(p, lastOutput[1]) < FirstPos(p, config.user[1])
          /\ \A k \in 1..4 :
               ~RefPresent(RefSources[k]) =>
                 /\ RefSources[k].head[1] \notin Range(p)
                 /\ (RefSources[k].foot # << >> => RefSources[k].foot[1] \notin Range(p))
    ]_vars

\* A dispatched prompt with all four optional sections.
C9_Witness ==
  \E t \in TaskIds :
    /\ tasks[t].pc = "prompt"
    /\ {"## Persistent Memory\n", "## Working Memory (this iteration only)\n",
        "## Monitor Output\n[fence]\n", "## Previous Response\n"}
         \subseteq Range(tasks[t].prompt)
    /\ {"P", "W", "M", "R", "T"} \subseteq Range(tasks[t].prompt)

\* ------------------------------------------------------------- hub (SpecHub)
\* C8: a subscription leaves the new stream with exactly one event, the
\* `connected` event with the state and configuration of that moment; a
\* stream that stays open receives, in order, every event a step publishes;
\* so `connected` is the first event of every stream and occurs once.
C8_ConnectedFirstNothingMissed ==
  [][ \A c \in SinkIds :
        /\ (streams[c].state = "none" /\ streams'[c].state # "none") =>
             /\ c \in clients'
             /\ streams'[c].state = "open"
             /\ streams'[c].queue =
                  <<ConnectedEvent(StateSnap(running, iteration, sessionID, lastOutput,
                                             monitorOutput, history), config)>>
        /\ (streams[c].state = "open" /\ streams'[c].state = "open") =>
             streams'[c].queue = streams[c].queue \o published'
        /\ streams'[c].state # "none" =>
             /\ Len(streams'[c].queue) >= 1
             /\ streams'[c].queue[1].type = "connected"
             /\ \A k \in 2..Len(streams'[c].queue) :
                  streams'[c].queue[k].type # "connected"
    ]_vars

\* A sink that subscribed while a run was going on has since received events
\* of the loop and of a request handler.
C8_Witness ==
  \E c \in SinkIds :
    /\ streams[c].state = "open"
    /\ streams[c].queue[1].type = "connected"
    /\ streams[c].queue[1].state.running
    /\ {"config", "response", "stopped"} \subseteq Types(streams[c].queue)

\* ------------------------------------------------- failures of an iteration
\* C11: the step that ends a prompt dispatch without a response (the call
\* threw, or resolved without data) publishes an `error` event with the
\* current iteration number, leaves history and last output alone, clears
\* working memory, and leaves the task in the loop.
C11_PromptFailureReported ==
  [][ \A t \in TaskIds :
        (tasks[t].pc = "prompt" /\ tasks'[t].pc # "prompt"
           /\ "response" \notin Types(published')) =>
          /\ PromptErrorEvent(iteration) \in Range(published')
          /\ history' = history
          /\ lastOutput' = lastOutput
          /\ config'.working = << >>
          /\ tasks'[t].pc \in {"sleep", "monitor", "create", "done"}
    ]_vars

\* C12: the step in which a start attempt fails to establish the gateway
\* publishes an `error` event, leaves state.running and state.iteration as
\* they were, and publishes neither `iteration` nor `stopped`.
C12_SetupFailureReported ==
  [][ \A t \in TaskIds :
        (tasks[t].pc # "failed" /\ tasks'[t].pc = "failed") =>
          /\ "error" \in Types(published')
          /\ running' = running
          /\ iteration' = iteration
          /\ Types(published') \cap {"iteration", "stopped"} = {}
    ]_vars

\* The monitor section of monitor output mo occurs in prompt p.
HasMonitorSection(p, mo) ==
  \E k \in 1..Len(p) :
    /\ p[k] = "## Monitor Output\n[fence]\n"
    /\ k + Len(mo) + 1 <= Len(p)
    /\ SubSeq(p, k + 1, k + Len(mo)) = mo
    /\ p[k + Len(mo) + 1] = "\n[fence]"

\* monitorOutput mo is the text of a failed monitor run.
IsMonitorError(mo) == mo # << >> /\ Head(mo) = "Error running monitor: "

\* C13: a monitor run that fails, at the launch or while its output is read,
\* leaves the task at session creation (never ended), with state.monitorOutput
\* a text that begins with the error indicator and a `monitor` event carrying
\* it; the prompt built next has that text in its monitor section.
C13_MonitorFailureContained ==
  [][ \A t \in TaskIds :
        /\ (tasks[t].pc = "monitor" /\ tasks'[t].pc # "monitor" /\ tasks[t].proc.throws) =>
             /\ tasks'[t].pc = "create"
             /\ IsMonitorError(monitorOutput')
             /\ MonitorEvent(monitorOutput') \in Range(published')
        /\ (tasks'[t] # tasks[t] /\ "iteration" \in Types(published')
              /\ config.monitor # NoMonitor) =>
             /\ tasks'[t].pc \in {"monitor", "create"}
             /\ tasks'[t].pc = "create" =>
                  /\ IsMonitorError(monitorOutput')
                  /\ MonitorEvent(monitorOutput') \in Range(published')
        /\ (tasks[t].pc = "create" /\ tasks'[t].pc = "prompt"
              /\ IsMonitorError(monitorOutput)) =>
             HasMonitorSection(tasks'[t].prompt, monitorOutput)
    ]_vars

\* The second iteration's prompt carries the error text that replaced the
\* output "M" the first iteration's prompt had.
C13_Witness ==
  \E t \in TaskIds :
    /\ tasks[t].pc = "prompt"
    /\ iteration = 2
    /\ IsMonitorError(monitorOutput)
    /\ HasMonitorSection(tasks[t].prompt, monitorError)
    /\ Len(history) = 1
    /\ HasMonitorSection(history[1].prompt, <<"M">>)

\* ------------------------------------------------------------- the ceiling
\* C14: with maxIterations = 0 no step makes state.running false, ends a
\* task's loop or publishes `stopped` unless a stop request has been handled
\* (in that step or before): the iteration count never ends the run.
C14_ZeroNeverStopsByCount ==
  [][ (config.maxIterations = 0 /\ calls'.stop = 0) =>
        /\ StoppedEvent \notin Range(published')
        /\ running => running'
        /\ \A t \in TaskIds : InLoop(t) => tasks'[t].pc # "done"
    ]_vars

\* An unbounded run that nobody stopped is in its MaxIter-th iteration.
C14_Witness ==
  /\ config.maxIterations = 0
  /\ calls.stop = 0
  /\ running
  /\ iteration = MaxIter
  /\ \E t \in TaskIds : InLoop(t) /\ tasks[t].from \in {"sleep", "sleepFail"}

\* ------------------------------------------------------------------- models
\* C15: every finished model listing has a list as its result, the empty one
\* after any failure; none ends in an error.
C15_ModelsNeverFail ==
  \A m \in ModelIds : models[m].pc = "done" => models[m].result \in {"models", "[]"}

\* -------------------------------------------------------- persistent memory
\* The values a set-persistent-memory or configuration-merge request can give
\* to persistent memory.
PersistentWrites ==
  env.persistent \cup {b.persistent : b \in {x \in env.bodies : "persistent" \in DOMAIN x}}

\* C16: a step of a start, of a stop or of a run's task (any outcome of an
\* iteration, the end of the run) leaves persistent memory as it was; a step
\* that changes it is a write request's, touches neither the tasks nor the
\* state, and gives it a value a set-persistent or merge request carried.
C16_PersistentOnlyByRequest ==
  [][ /\ (tasks' # tasks \/ calls'.start # calls.start \/ calls'.stop # calls.stop) =>
           config'.persistent = config.persistent
      /\ config'.persistent # config.persistent =>
           /\ calls'.writes = calls.writes + 1
           /\ tasks' = tasks
           /\ stateVars' = stateVars
           /\ config'.persistent \in PersistentWrites
    ]_vars

\* A run has completed an iteration that cleared a written working memory
\* and has ended; persistent memory is what it was at the start.
C16_Witness ==
  /\ \E t \in TaskIds : tasks[t].pc = "done"
  /\ Len(history) >= 1
  /\ calls.writes = 1
  /\ config.working = << >>
  /\ config.persistent = <<"P">>

\* ---------------------------------------------------------- sinks (SpecSinks)
\* C17: a step that publishes appends what it publishes, in order, to the
\* queue of every sink of the set whose write succeeds and keeps that sink in
\* the set; it removes every sink of the set whose write fails and gives it
\* nothing; a sink outside the set gets nothing, and a removed one stays out.
C17_PublishReachesEveryLiveSink ==
  [][ \A c \in SinkIds :
        /\ (published' # << >> /\ c \in clients /\ streams[c].state = "open") =>
             /\ streams'[c].queue = streams[c].queue \o published'
             /\ c \in clients'
        /\ (published' # << >> /\ c \in clients /\ streams[c].state # "open") =>
             /\ c \notin clients'
             /\ streams'[c].queue = streams[c].queue
        /\ (c \notin clients /\ streams[c].state # "none") =>
             /\ c \notin clients'
             /\ streams'[c].queue = streams[c].queue
    ]_vars

\* The latest publish removed closed sink d and reached open sink c, which
\* has both published events in the order of their publication; d has the
\* first one only.
C17_Witness ==
  /\ published # << >>
  /\ \E c, d \in SinkIds :
       /\ streams[c].state = "open" /\ c \in clients
       /\ streams[d].state = "closed" /\ d \notin clients
       /\ Len(streams[c].queue) = 3
       /\ streams[c].queue[3] = published[1]
       /\ streams[c].queue[2] # published[1]
       /\ Len(streams[d].queue) = 2
       /\ streams[d].queue[2] = streams[c].queue[2]

\* C18: the step that completes an iteration's network phase, by a failed
\* session creation as well as by the end of the prompt dispatch, leaves
\* working memory empty and publishes a state snapshot.
C18_EveryIterationClearsWorking ==
  [][ \A t \in TaskIds :
        (tasks[t].pc \in {"create", "prompt"} /\ tasks'[t].pc \notin {"create", "prompt"}) =>
          /\ config'.working = << >>
          /\ "state" \in Types(published')
    ]_vars

\* ------------------------------------------------------------ cancellation
\* The step handles a stop request.
StopStep == calls'.stop = calls.stop + 1

\* C19: a stop request handled while the task of the current controller
\* sleeps takes that task out of its sleep: the task ends and `stopped` is
\* published by what the stop sets off, not by the timer's expiry later.
C19_StopInterruptsSleep ==
  [][ \A t \in TaskIds :
        (StopStep /\ tasks[t].pc \in {"sleep", "sleepFail"} /\ loopAbort = t) =>
          /\ tasks'[t].pc = "done"
          /\ StoppedEvent \in Range(published')
    ]_vars

\* C20: when the prompt call of a task whose controller a stop request has
\* aborted returns with data, the step appends the history record, overwrites
\* last output, publishes `response` and the state snapshot, clears working
\* memory, and ends the task with `stopped`: no sleep, no further iteration.
C20_StopWaitsForCall ==
  [][ \A t \in TaskIds :
        (tasks[t].pc = "prompt" /\ tasks'[t].pc # "prompt" /\ t \in aborted
           /\ "response" \in Types(published')) =>
          /\ history' = pushHistory(history, [iteration |-> iteration,
                                               prompt |-> tasks[t].prompt,
                                               response |-> lastOutput'])
          /\ ResponseEvent(lastOutput', iteration) \in Range(published')
          /\ "state" \in Types(published')
          /\ config'.working = << >>
          /\ tasks'[t].pc = "done"
          /\ StoppedEvent \in Range(published')
          /\ iteration' = iteration
          /\ ~running'
    ]_vars

\* ------------------------------------------------------- stop against start
\* C21: a task whose controller a stop request has aborted begins no further
\* iteration, whatever start requests follow: no step of its own publishes
\* `iteration` or changes the counter, and when it returns it publishes
\* `stopped`.
C21_StopIsNeverUndone ==
  [][ \A t \in TaskIds :
        (t \in aborted /\ tasks'[t] # tasks[t]) =>
          /\ "iteration" \notin Types(published')
          /\ iteration' = iteration
          /\ tasks'[t].pc = "done" => StoppedEvent \in Range(published')
    ]_vars

\* No start request has been handled since the latest stop request.
StopIsLatest == calls.stop >= 1 /\ calls.start = calls.startsAtStop

\* C22: in an unbounded run (maxIterations = 0, where a raised running flag
\* comes down by a stop request only), as long as no start request follows a
\* stop request, state.running stays false and no iteration begins: the stop
\* takes effect also for a start that was still setting up the gateway.
C22_StopTakesEffect ==
  [][ (config.maxIterations = 0 /\ StopIsLatest /\ StopIsLatest') =>
        /\ ~running'
        /\ "iteration" \notin Types(published')
    ]_vars

\* ------------------------------------------------------ one iteration's events
\* Task t is between the `iteration` event of an iteration and its end.
InIteration(t) == tasks[t].pc \in {"monitor", "create", "prompt"}

\* C23: the step that begins an iteration of task t publishes `iteration` with
\* the new count last (or followed by the `monitor` event of a launch that
\* failed); then come, one step each, `monitor` when a monitor run was
\* awaited, `prompt` with the text that is dispatched, and `response` or
\* `error` followed by `state`; the count stays what the `iteration` event
\* announced until the iteration ends, and `prompt`, `response`, `error` and
\* the history record carry it, the record with the dispatched text.
C23_IterationEventOrder ==
  [][ \A t \in TaskIds :
        /\ (tasks'[t] # tasks[t] /\ "iteration" \in Types(published')) =>
             LET n == Len(published') IN
             /\ tasks'[t].pc \in {"monitor", "create"}
             /\ \/ published'[n] = IterationEvent(iteration')
                \/ /\ config.monitor # NoMonitor /\ tasks'[t].pc = "create" /\ n >= 2
                   /\ published'[n - 1] = IterationEvent(iteration')
                   /\ published'[n] = MonitorEvent(monitorOutput')
        /\ (InIteration(t) /\ tasks'[t] = tasks[t]) => iteration' = iteration
        /\ (tasks[t].pc = "monitor" /\ tasks'[t] # tasks[t]) =>
             /\ tasks'[t].pc = "create"
             /\ iteration' = iteration
             /\ published' = <<MonitorEvent(monitorOutput')>>
        /\ (tasks[t].pc = "create" /\ tasks'[t].pc = "prompt") =>
             /\ iteration' = iteration
             /\ published' = <<PromptEvent(tasks'[t].prompt, iteration)>>
        /\ (tasks[t].pc = "prompt" /\ tasks'[t] # tasks[t]) =>
             /\ Len(published') >= 2
             /\ published'[2].type = "state"
             /\ \/ /\ published'[1] = ResponseEvent(lastOutput', iteration)
                   /\ history' # << >>
                   /\ history'[Len(history')] =
                        [iteration |-> iteration, prompt |-> tasks[t].prompt,
                         response |-> lastOutput']
                \/ /\ published'[1] = PromptErrorEvent(iteration)
                   /\ history' = history
    ]_vars

\* ----------------------------------------------------------------- sessions
\* C24: a task awaits session.create() once per iteration (it arrives there
\* only from the step that begins an iteration or from that iteration's
\* monitor run, and leaves for the dispatch, the failure sleep or its end); a
\* prompt is dispatched only from there, into the session that call has just
\* created, an identifier no earlier dispatch had; two pending dispatches
\* never share a session.
C24_OneSessionPerIteration ==
  [][ /\ \A t \in TaskIds :
           /\ (tasks'[t] # tasks[t] /\ tasks'[t].pc = "create") =>
                \/ tasks[t].pc = "monitor"
                \/ tasks[t].pc # "create" /\ IterationEvent(iteration') \in Range(published')
           /\ (tasks[t].pc = "create" /\ tasks'[t] # tasks[t]) =>
                tasks'[t].pc \in {"prompt", "sleepFail", "crashed"}
           /\ (tasks'[t].pc = "prompt" /\ tasks'[t] # tasks[t]) =>
                /\ tasks[t].pc = "create"
                /\ created' = created + 1
                /\ tasks'[t].session = created'
                /\ sessionID' = created'
      /\ \A t, u \in TaskIds :
           (t # u /\ tasks'[t].pc = "prompt" /\ tasks'[u].pc = "prompt") =>
             tasks'[t].session # tasks'[u].session
    ]_vars

\* The second iteration of a run has dispatched its prompt into the second
\* session.
C24_Witness ==
  \E t \in TaskIds :
    /\ calls.start = 1
    /\ tasks[t].pc = "prompt"
    /\ iteration = 2
    /\ Len(history) = 1
    /\ created = 2
    /\ tasks[t].session = 2
    /\ sessionID = 2

\* ------------------------------------------------- writes to working memory
\* The working memory section of text w occurs in prompt p.
HasWorkingSection(p, w) ==
  \E k \in 1..Len(p) :
    /\ p[k] = "## Working Memory (this iteration only)\n"
    /\ k + Len(w) <= Len(p)
    /\ SubSeq(p, k + 1, k + Len(w)) = w

\* C25: a prompt is built with the working memory written last before it;
\* and a step of a task takes a written working memory away only when the
\* prompt that task has dispatched contained it, so that a value written
\* while the agent call is pending is still there for the next prompt.
C25_WrittenWorkingIsObserved ==
  [][ \A t \in TaskIds :
        /\ (tasks[t].pc = "create" /\ tasks'[t].pc = "prompt" /\ config.working # << >>) =>
             HasWorkingSection(tasks'[t].prompt, config.working)
        /\ (tasks'[t] # tasks[t] /\ config.working # << >>
              /\ config'.working # config.working) =>
             HasWorkingSection(tasks[t].prompt, config.working)
    ]_vars

\* ------------------------------------------------------- start (SpecRestart)
\* The previous response section of text r occurs in prompt p.
HasPreviousSection(p, r) ==
  \E k \in 1..Len(p) :
    /\ p[k] = "## Previous Response\n"
    /\ k + Len(r) <= Len(p)
    /\ SubSeq(p, k + 1, k + Len(r)) = r

\* C26: the step in which a task enters the loop sets state.running, makes
\* the task's controller the current one and publishes first a state snapshot
\* with counter 0 and the session, last output, monitor output and history of
\* before; it leaves session, last output, history and the configuration
\* unchanged, and the monitor output too unless the first iteration's monitor
\* launch fails in the same step; and a prompt built while a last output
\* exists, the first of a new run included, has it as its previous response.
C26_StartKeepsStore ==
  [][ \A t \in TaskIds :
        /\ (tasks[t].pc \in {"idle", "setup"} /\ InLoop(t)') =>
             /\ running'
             /\ iteration' = 1
             /\ loopAbort' = t
             /\ published'[1] = StateEvent(StateSnap(TRUE, 0, sessionID, lastOutput,
                                                     monitorOutput, history))
             /\ IterationEvent(1) \in Range(published')
             /\ UNCHANGED <<sessionID, lastOutput, history, config>>
             /\ \/ monitorOutput' = monitorOutput
                \/ /\ tasks'[t].pc = "create"
                   /\ MonitorEvent(monitorOutput') \in Range(published')
        /\ (tasks[t].pc = "create" /\ tasks'[t].pc = "prompt" /\ lastOutput # << >>) =>
             HasPreviousSection(tasks'[t].prompt, lastOutput)
    ]_vars

\* The second run's first prompt has the first run's response as previous
\* response, and the history still holds the first run's record, of
\* iteration 1 like the iteration that is going on.
C26_Witness ==
  /\ calls.start = 2
  /\ tasks[1].pc = "done"
  /\ tasks[2].pc = "prompt"
  /\ iteration = 1
  /\ Len(history) = 1
  /\ history[1].iteration = 1
  /\ history[1].response = <<"R">>
  /\ HasPreviousSection(tasks[2].prompt, <<"R">>)

====
